---------------------------- MODULE Spec2Model ----------------------------
(***************************************************************************)
(* Model of the Flask TTS API of src/main.py: GET /api/tts turns           *)
(* (username, action) into a freshly named .ogg file under static/audio    *)
(* and answers with a URL to it.                                           *)
(*                                                                         *)
(* Python strings that the code inspects character by character            *)
(* (usernames, actions, base URLs, file names) are sequences of            *)
(* one-character strings.  Values the code only compares for equality      *)
(* (engine names, exception classes) are plain strings.                    *)
(*                                                                         *)
(* The libraries are modelled by their outcomes: a call of pyttsx3, gTTS   *)
(* or pydub returns or raises, os.remove removes or raises, uuid4 returns  *)
(* a value it has not returned before.  The lang and tld parameters of     *)
(* gTTS, the spoken phrase, ensure_dir and the routes /api/voices and /    *)
(* do not bear on the properties below and are left out.                   *)
(***************************************************************************)
EXTENDS Integers, Sequences, FiniteSets

VARIABLES
    config,   \* app.config and the import state of the gTTS library
    lock,     \* PyTTSX3Generator._lock of the default engine: 0 free, else holder
    files,    \* static/audio: set of [name, by] (file name, last writer)
    issued,   \* uuid4 values handed out so far
    req,      \* per request: position in tts_endpoint and its local variables
    resp,     \* per request: the HTTP response, once sent
    arg,      \* the input of sanitize_username, or of PyTTSX3Generator.__init__
    ret       \* the results: of sanitize_username applied repeatedly, or
              \* of the constructor's voice selection

vars == <<config, lock, files, issued, req, resp, arg, ret>>

---------------------------------------------------------------------------
(* Bounds                                                                  *)

\* concurrent /api/tts requests
NumReq == 2
\* free characters around the padding of a sanitizer input
MaxTail == 2
\* trailing slashes tried on a base URL
MaxSlash == 1
\* voices the pyttsx3 engine enumerates
MaxVoices == 2

---------------------------------------------------------------------------
(* Python str primitives                                                   *)

\* Python's None, distinct from every string
None == <<"None">>

Min(a, b) == IF a < b THEN a ELSE b

UpperLetters ==
    <<"A","B","C","D","E","F","G","H","I","J","K","L","M",
      "N","O","P","Q","R","S","T","U","V","W","X","Y","Z">>

LowerLetters ==
    <<"a","b","c","d","e","f","g","h","i","j","k","l","m",
      "n","o","p","q","r","s","t","u","v","w","x","y","z">>

Digits == {"0","1","2","3","4","5","6","7","8","9"}

Whitespace == {" ", "\t", "\n"}

Range(s) == {s[i] : i \in 1..Len(s)}

\* str.lower() on one character
lower_char(c) ==
    IF \E i \in 1..26 : UpperLetters[i] = c
    THEN LowerLetters[CHOOSE i \in 1..26 : UpperLetters[i] = c]
    ELSE c

\* str.lower()
lower(s) == [i \in 1..Len(s) |-> lower_char(s[i])]

RECURSIVE lstrip(_, _)
\* str.lstrip(chars)
lstrip(s, chars) ==
    IF s # <<>> /\ Head(s) \in chars THEN lstrip(Tail(s), chars) ELSE s

RECURSIVE rstrip(_, _)
\* str.rstrip(chars)
rstrip(s, chars) ==
    IF s # <<>> /\ s[Len(s)] \in chars
    THEN rstrip(SubSeq(s, 1, Len(s) - 1), chars)
    ELSE s

\* str.strip(chars); str.strip() is strip(s, Whitespace)
strip(s, chars) == rstrip(lstrip(s, chars), chars)

\* s.startswith(prefix)
startswith(s, prefix) ==
    Len(s) >= Len(prefix) /\ SubSeq(s, 1, Len(prefix)) = prefix

\* s.endswith(suffix)
endswith(s, suffix) ==
    Len(s) >= Len(suffix) /\ SubSeq(s, Len(s) - Len(suffix) + 1, Len(s)) = suffix

\* s[:n]
Prefix(s, n) == SubSeq(s, 1, Min(Len(s), n))

---------------------------------------------------------------------------
(* sanitize_username                                                       *)

max_len_default == 64

\* the character class [a-z0-9_\-]
AllowedChars == Range(LowerLetters) \cup Digits \cup {"_", "-"}

RECURSIVE sub_disallowed(_)
\* re.sub(r"[^a-z0-9_\-]+", "-", s)
sub_disallowed(s) ==
    IF s = <<>> THEN <<>>
    ELSE IF Head(s) \in AllowedChars
         THEN <<Head(s)>> \o sub_disallowed(Tail(s))
         ELSE <<"-">> \o sub_disallowed(lstrip(Tail(s), Range(s) \ AllowedChars))

RECURSIVE sub_hyphens(_)
\* re.sub(r"-{2,}", "-", s)
sub_hyphens(s) ==
    IF s = <<>> THEN <<>>
    ELSE IF Head(s) = "-"
         THEN <<"-">> \o sub_hyphens(lstrip(Tail(s), {"-"}))
         ELSE <<Head(s)>> \o sub_hyphens(Tail(s))

User == <<"u","s","e","r">>

\* the mutant: the "or 'user'" default is dropped
sanitize_no_default(username, max_len) ==
    Prefix(strip(sub_hyphens(sub_disallowed(lower(strip(username, Whitespace)))),
                 {"-"}),
           max_len)

sanitize_username(username, max_len) ==
    LET s1 == lower(strip(username, Whitespace))
        s2 == sub_disallowed(s1)
        s3 == strip(sub_hyphens(s2), {"-"})
        cut == Prefix(s3, max_len)
    IN  IF cut = <<>> THEN User ELSE cut


---------------------------------------------------------------------------
(* URL building                                                            *)

S_http == <<"h","t","t","p",":","/","/">>

S_https == <<"h","t","t","p","s",":","/","/">>

S_static == <<"/","s","t","a","t","i","c","/">>

S_audio == <<"a","u","d","i","o","/">>

\* the root Flask derives from the inbound request (scheme and Host header)
host_url == <<"h","t","t","p",":","/","/","l","o","c","a","l","h","o","s","t",":","4","6","8","4">>

is_valid_base_url(value) ==
    IF value = None \/ value = <<>> THEN FALSE
    ELSE LET v == lower(strip(value, Whitespace))
         IN  startswith(v, S_http) \/ startswith(v, S_https)

RECURSIVE scheme_len(_)
\* length of the scheme of an absolute URL: the characters before the first ":"
scheme_len(u) ==
    IF u = <<>> \/ Head(u) = ":" THEN 0 ELSE 1 + scheme_len(Tail(u))

\* urllib.parse.urljoin(base, url) for a base "scheme://authority/path/" without
\* query or fragment and a relative url without dot segments: the url is
\* appended to the base, whose scheme urlsplit lower-cases
urljoin(base, url) ==
    LET n == scheme_len(base)
    IN  lower(SubSeq(base, 1, n)) \o SubSeq(base, n + 1, Len(base)) \o url

\* flask.url_for("static", filename=..., _external=True)
url_for_static(filename) == host_url \o S_static \o filename

build_file_url(rel_static_path, base_url_override) ==
    LET static_path == S_static \o lstrip(rel_static_path, {"/"})
    IN  IF base_url_override # None /\ base_url_override # <<>>
           /\ is_valid_base_url(base_url_override)
        THEN urljoin(rstrip(base_url_override, {"/"}) \o <<"/">>,
                     lstrip(static_path, {"/"}))
        ELSE url_for_static(rel_static_path)

\* Python's "a or b": a when truthy, else b
Or(a, b) == IF a # None /\ a # <<>> THEN a ELSE b

\* the mutant: the configured default shadows the query parameter
base_override_config_first(per_request_base, external_base_url) ==
    Or(Or(external_base_url, per_request_base), None)

\* tts_endpoint: per_request_base or app.config.get("EXTERNAL_BASE_URL") or None
base_override(per_request_base, external_base_url) ==
    Or(Or(per_request_base, external_base_url), None)

\* tts_endpoint: (request.args.get("base_url", type=str) or "").strip()
per_request_base(base_url_arg) == strip(Or(base_url_arg, <<>>), Whitespace)


---------------------------------------------------------------------------
(* AudioSpec                                                               *)

Join == <<"j","o","i","n">>

Leave == <<"l","e","a","v","e">>

HexDigits == <<"0","1","2","3","4","5","6","7","8","9","a","b","c","d","e","f">>

\* str(uuid.uuid4()): fixed-width strings; one per request is enough
UUIDs == {<<"0", HexDigits[i]>> : i \in 1..NumReq}

\* uuid.uuid4() draws from a 128-bit space: the values it can return are the
\* ones no earlier call returned
uuid4(used) == UUIDs \ used

\* the mutant: the reuse-by-key name, without the uuid
filename_by_key(uuid, username_raw, action) ==
    action \o <<"_">> \o sanitize_username(username_raw, max_len_default)
           \o <<".","o","g","g">>

\* AudioSpec.filename
filename(uuid, username_raw, action) ==
    uuid \o <<"_">> \o sanitize_username(username_raw, max_len_default)
         \o <<"_">> \o action \o <<".","o","g","g">>

\* AudioSpec.tmp_wav_path
tmp_wav_path(uuid) == <<".","t","m","p","_">> \o uuid \o <<".","w","a","v">>

\* AudioSpec.tmp_mp3_path
tmp_mp3_path(uuid) == <<".","t","m","p","_">> \o uuid \o <<".","m","p","3">>

---------------------------------------------------------------------------
(* The artifact directory                                                  *)

exists(fs, name) == \E f \in fs : f.name = name

\* open(name, "wb") by request r: creates the file or replaces its content
write(fs, name, r) == {f \in fs : f.name # name} \cup {[name |-> name, by |-> r]}

\* os.remove(name)
remove(fs, name) == {f \in fs : f.name # name}

---------------------------------------------------------------------------
(* Requests and responses                                                  *)

Reqs == 1..NumReq

NoExc == [class |-> "none", msg |-> ""]

\* what pyttsx3, gTTS and pydub may raise: a ValueError or any other class
SynthesisErrors ==
    {[class |-> c, msg |-> "synthesis failed"] : c \in {"ValueError", "RuntimeError"}}

TranscodeErrors ==
    {[class |-> c, msg |-> "transcode failed"] : c \in {"ValueError", "RuntimeError"}}

NoResp == [status |-> 0, url |-> <<>>, filename |-> <<>>, engine |-> "",
           prefix |-> "", cause |-> ""]

\* flask.abort(status, description=prefix + cause)
abort(status, prefix, cause) ==
    [status |-> status, url |-> <<>>, filename |-> <<>>, engine |-> "",
     prefix |-> prefix, cause |-> cause]

\* Flask's answer to an exception no handler caught: a generic 500 page
InternalServerError == abort(500, "Internal Server Error", "")

\* tts_endpoint: except ValueError -> 400, except Exception -> 500
handle_exception(e) ==
    IF e.class = "ValueError"
    THEN abort(400, "", e.msg)
    ELSE abort(500, "TTS generation failed: ", e.msg)

\* tts_endpoint: the 200 answer
ok_response(r, uuid, args, act, engine_name) ==
    LET fname == filename(uuid, args.username, act)
        rel_path == S_audio \o fname
    IN  [status |-> 200,
         url |-> build_file_url(rel_path,
                     base_override(per_request_base(args.base_url),
                                   config.EXTERNAL_BASE_URL)),
         filename |-> fname, engine |-> engine_name, prefix |-> "", cause |-> ""]

\* Python truthiness of an optional string
Truthy(s) == s # None /\ s # <<>>

\* the mutant: create_audio accepts every action
action_ok_any(act) == TRUE

\* create_audio: act in ("join", "leave")
action_ok(act) == act \in {Join, Leave}

\* tts_endpoint: the engine name of this request
current_engine_name(req_engine) ==
    IF req_engine \in {"pyttsx3", "gtts"} THEN req_engine ELSE config.ENGINE_NAME

\* create_app: the class of the default engine held by `service`
default_engine_class == IF config.ENGINE_NAME = "gtts" THEN "gtts" ELSE "pyttsx3"

\* tts_endpoint: local_service is a fresh GTTSGenerator service, or `service`
local_service(engine_name) == IF engine_name = "gtts" THEN "local" ELSE "default"

\* the class of the engine object behind local_service.tts
generator_class(tts) == IF tts = "local" THEN "gtts" ELSE default_engine_class

Idle == [pc |-> "start", args |-> [username |-> None, action |-> None,
                                    engine |-> "None", base_url |-> None],
         engine_name |-> "", tts |-> "", uuid |-> None, act |-> None,
         synth |-> "none", ogg |-> "none", exc |-> NoExc, rm |-> "none"]


---------------------------------------------------------------------------
(* GET /api/tts                                                            *)

\* the answer is sent: the handler of request r is over
reply(r, response) ==
    /\ resp' = [resp EXCEPT ![r] = response]
    /\ req' = [req EXCEPT ![r].pc = "done"]

\* tts_endpoint up to the call of generate_ogg: argument checks, engine
\* resolution, construction of the per-request engine, create_audio's own
\* check of the action, and the AudioSpec with its fresh uuid
tts_endpoint(r, a) ==
    /\ req[r].pc = "start"
    /\ UNCHANGED <<config, lock, files, arg, ret>>
    /\ IF ~Truthy(a.username) \/ ~Truthy(a.action)
       THEN /\ resp' = [resp EXCEPT ![r] = abort(400, "", "Missing 'username' or 'action'.")]
            /\ req' = [req EXCEPT ![r] = [Idle EXCEPT !.pc = "done", !.args = a]]
            /\ UNCHANGED issued
       ELSE LET name == current_engine_name(a.engine)
                tts == local_service(name)
                act == lower(strip(a.action, Whitespace))
                here == [Idle EXCEPT !.args = a, !.engine_name = name]
            IN  IF name = "gtts" /\ ~config.gTTS
                THEN \* GTTSGenerator.__init__ raises outside the try block
                     /\ resp' = [resp EXCEPT ![r] = InternalServerError]
                     /\ req' = [req EXCEPT ![r] = [here EXCEPT !.pc = "done"]]
                     /\ UNCHANGED issued
                ELSE IF ~action_ok(act)
                THEN /\ resp' = [resp EXCEPT ![r] = handle_exception(
                            [class |-> "ValueError",
                             msg |-> "Parameter 'action' must be 'join' or 'leave'."])]
                     /\ req' = [req EXCEPT ![r] = [here EXCEPT !.pc = "done", !.tts = tts]]
                     /\ UNCHANGED issued
                ELSE \E u \in uuid4(issued) :
                     /\ issued' = issued \cup {u}
                     /\ req' = [req EXCEPT ![r] =
                            [here EXCEPT !.tts = tts, !.uuid = u, !.act = act,
                                         !.pc = IF generator_class(tts) = "gtts"
                                                THEN "gtts_save" ELSE "acquire"]]
                     /\ UNCHANGED resp

\* the mutant: synthesis without taking the lock
acquire_unlocked(r) ==
    /\ req[r].pc = "acquire"
    /\ req' = [req EXCEPT ![r].pc = "save_to_file"]
    /\ UNCHANGED <<config, lock, files, issued, resp, arg, ret>>

\* PyTTSX3Generator.generate_ogg: with self._lock
acquire(r) ==
    /\ req[r].pc = "acquire"
    /\ lock = 0
    /\ lock' = r
    /\ req' = [req EXCEPT ![r].pc = "save_to_file"]
    /\ UNCHANGED <<config, files, issued, resp, arg, ret>>

\* leaving the with block, normally or by an exception
release(r) == lock' = IF lock = r THEN 0 ELSE lock

\* PyTTSX3Generator.generate_ogg: self._engine.save_to_file(phrase, tmp_wav_path)
save_to_file(r) ==
    /\ req[r].pc = "save_to_file"
    /\ UNCHANGED <<config, files, issued, arg, ret>>
    /\ \/ /\ req' = [req EXCEPT ![r].pc = "runAndWait", ![r].synth = "pyttsx3"]
          /\ UNCHANGED <<lock, resp>>
       \/ \E e \in SynthesisErrors :
          /\ release(r)
          /\ resp' = [resp EXCEPT ![r] = handle_exception(e)]
          /\ req' = [req EXCEPT ![r].pc = "done", ![r].synth = "pyttsx3"]

\* PyTTSX3Generator.generate_ogg: self._engine.runAndWait(), then the with
\* block ends.  The engine may return without having produced the file.
runAndWait(r) ==
    /\ req[r].pc = "runAndWait"
    /\ UNCHANGED <<config, issued, arg, ret>>
    /\ release(r)
    /\ \/ \E wrote \in BOOLEAN :
          /\ files' = IF wrote THEN write(files, tmp_wav_path(req[r].uuid), r) ELSE files
          /\ req' = [req EXCEPT ![r].pc = "transcode"]
          /\ UNCHANGED resp
       \/ \E e \in SynthesisErrors :
          /\ reply(r, handle_exception(e))
          /\ UNCHANGED files

\* GTTSGenerator.generate_ogg: gTTS(...) and tts.save(tmp_mp3_path)
gtts_save(r) ==
    /\ req[r].pc = "gtts_save"
    /\ UNCHANGED <<config, lock, issued, arg, ret>>
    /\ \/ /\ files' = write(files, tmp_mp3_path(req[r].uuid), r)
          /\ req' = [req EXCEPT ![r].pc = "transcode", ![r].synth = "gtts"]
          /\ UNCHANGED resp
       \/ \E e \in SynthesisErrors :
          /\ UNCHANGED files
          /\ resp' = [resp EXCEPT ![r] = handle_exception(e)]
          /\ req' = [req EXCEPT ![r].pc = "done", ![r].synth = "gtts"]

\* the intermediate file of request r
tmp_path(r) ==
    IF generator_class(req[r].tts) = "gtts"
    THEN tmp_mp3_path(req[r].uuid) ELSE tmp_wav_path(req[r].uuid)

\* AudioSpec.ogg_path, relative to the artifact directory
ogg_path(r) == filename(req[r].uuid, req[r].args.username, req[r].act)

\* generate_ogg: AudioSegment.from_wav / from_file, then audio.export(ogg_path)
transcode(r) ==
    /\ req[r].pc = "transcode"
    /\ UNCHANGED <<config, lock, issued, resp, arg, ret>>
    /\ \/ /\ exists(files, tmp_path(r))
          /\ files' = write(files, ogg_path(r), r)
          /\ req' = [req EXCEPT ![r].pc = "cleanup", ![r].ogg = "ok"]
       \/ \E e \in TranscodeErrors :
          /\ UNCHANGED files
          /\ req' = [req EXCEPT ![r].pc = "cleanup", ![r].ogg = "raised", ![r].exc = e]

\* how generate_ogg ends once the finally block is through, and what
\* tts_endpoint answers
finish(r, rm) ==
    /\ req' = [req EXCEPT ![r].pc = "done", ![r].rm = rm]
    /\ resp' = [resp EXCEPT ![r] =
           IF req[r].exc = NoExc
           THEN ok_response(r, req[r].uuid, req[r].args, req[r].act, req[r].engine_name)
           ELSE handle_exception(req[r].exc)]

\* the mutant: the intermediate file is removed only after a failed transcode
cleanup_on_error_only(r) ==
    /\ req[r].pc = "cleanup"
    /\ UNCHANGED <<config, lock, issued, arg, ret>>
    /\ IF req[r].exc = NoExc \/ ~exists(files, tmp_path(r))
       THEN files' = files /\ finish(r, "absent")
       ELSE files' = remove(files, tmp_path(r)) /\ finish(r, "removed")

\* generate_ogg: the finally block (os.path.exists, os.remove, except: pass),
\* the return, and the rest of tts_endpoint
cleanup(r) ==
    /\ req[r].pc = "cleanup"
    /\ UNCHANGED <<config, lock, issued, arg, ret>>
    /\ IF ~exists(files, tmp_path(r))
       THEN files' = files /\ finish(r, "absent")
       ELSE \/ files' = remove(files, tmp_path(r)) /\ finish(r, "removed")
            \/ files' = files /\ finish(r, "failed")

---------------------------------------------------------------------------
(* The server under concurrent requests                                    *)

Bob == <<"B","o","b">>

Dance == <<"d","a","n","c","e">>

LeaveLoose == <<" ","L","e","a","v","e">>

\* create_app succeeded: a default gtts engine needs the gTTS library
Configs(bases) ==
    {c \in [ENGINE_NAME : {"pyttsx3", "gtts"}, gTTS : BOOLEAN,
            EXTERNAL_BASE_URL : bases] : c.ENGINE_NAME = "gtts" => c.gTTS}

Quiet ==
    /\ lock = 0
    /\ files = {}
    /\ issued = {}
    /\ req = [r \in Reqs |-> Idle]
    /\ resp = [r \in Reqs |-> NoResp]

\* the steps of the handler of request r, its arguments drawn from `args`
handler(r, args) ==
    \/ \E a \in args : tts_endpoint(r, a)
    \/ acquire(r)
    \/ save_to_file(r)
    \/ runAndWait(r)
    \/ gtts_save(r)
    \/ transcode(r)
    \/ cleanup(r)

\* NumReq clients ask at the same time for the same (username, action), with
\* or without an engine override
SameArgs == [username : {Bob}, action : {Join}, engine : {"None", "gtts"},
             base_url : {None}]

Init ==
    /\ config \in Configs({<<>>})
    /\ Quiet
    /\ arg = <<>>
    /\ ret = <<>>

Next == \E r \in Reqs : handler(r, SameArgs)

Spec == Init /\ [][Next]_vars

---------------------------------------------------------------------------
(* One client sending a request and then a later one, with every kind of   *)
(* argument                                                                *)

Usernames == {None, <<>>, Bob}

Actions == {None, Join, LeaveLoose, Dance}

EngineArgs == {"None", "pyttsx3", "gtts", "espeak"}

AnyArgs == [username : Usernames, action : Actions, engine : EngineArgs,
            base_url : {None}]

\* a first request and a later one
SeqReqs == {1, 2}

\* request r is sent when the earlier ones are answered
Turn(r) == \A q \in Reqs : q < r => req[q].pc = "done"

NextSeq ==
    \E r \in SeqReqs :
        \/ Turn(r) /\ \E a \in AnyArgs : tts_endpoint(r, a)
        \/ acquire(r)
        \/ save_to_file(r)
        \/ runAndWait(r)
        \/ gtts_save(r)
        \/ transcode(r)
        \/ cleanup(r)

SpecSeq == Init /\ [][NextSeq]_vars

---------------------------------------------------------------------------
(* One request answered under every combination of base URLs               *)

RECURSIVE Slashes(_)
Slashes(k) == IF k = 0 THEN <<>> ELSE <<"/">> \o Slashes(k - 1)

Schemes == {S_https, S_http, <<"H","T","T","P",":","/","/">>, <<"f","t","p",":","/","/">>, <<>>}

Bases(host) == {s \o host \o Slashes(k) : s \in Schemes, k \in 0..MaxSlash}

CdnHost == <<"c","d","n",".","e","x","a","m","p","l","e",".","c","o","m">>

ExtHost == <<"e","x","t",".","e","x","a","m","p","l","e",".","o","r","g",":","4","6","4","8">>

\* the base_url query parameter: absent, empty, blank, or a string
BaseUrlArgs == Bases(CdnHost) \cup {None, <<>>, <<" ">>, <<" ">> \o S_https \o CdnHost}

\* --external-base-url, stripped by parse_args
ExternalBaseUrls == Bases(ExtHost) \cup {<<>>}

UrlArgs == [username : {Bob}, action : {Join}, engine : {"None"},
            base_url : BaseUrlArgs]

InitUrl ==
    /\ config \in [ENGINE_NAME : {"gtts"}, gTTS : {TRUE},
                   EXTERNAL_BASE_URL : ExternalBaseUrls]
    /\ Quiet
    /\ arg = <<>>
    /\ ret = <<>>

NextUrl ==
    \E r \in {1} :
        \/ \E a \in UrlArgs : tts_endpoint(r, a)
        \/ gtts_save(r)
        \/ transcode(r)
        \/ cleanup(r)

SpecUrl == InitUrl /\ [][NextUrl]_vars

---------------------------------------------------------------------------
(* sanitize_username applied to a string, and then to its own result       *)

RECURSIVE Pad(_)
Pad(k) == IF k = 0 THEN <<>> ELSE <<"a">> \o Pad(k - 1)

RECURSIVE SeqsUpTo(_, _)
\* the sequences over S of length at most n
SeqsUpTo(S, n) ==
    IF n = 0 THEN {<<>>}
    ELSE LET shorter == SeqsUpTo(S, n - 1)
         IN  shorter \cup {Append(s, c) : s \in shorter, c \in S}

SanAlphabet == {"a", "B", "7", "_", "-", " ", "!"}

\* short strings, and strings whose sanitized form reaches the length limit
SanInputs ==
    {h \o Pad(k) \o t :
        h \in SeqsUpTo(SanAlphabet, 1),
        k \in {0, max_len_default - 2, max_len_default - 1, max_len_default},
        t \in SeqsUpTo(SanAlphabet, MaxTail)}

InitSan ==
    /\ config \in Configs({<<>>})
    /\ config.ENGINE_NAME = "pyttsx3" /\ config.gTTS
    /\ Quiet
    /\ arg \in SanInputs
    /\ ret = <<>>

\* ret collects sanitize_username(arg), sanitize_username(sanitize_username(arg))
Sanitize ==
    /\ Len(ret) < 2
    /\ ret' = Append(ret, sanitize_username(IF ret = <<>> THEN arg ELSE ret[Len(ret)],
                                            max_len_default))
    /\ UNCHANGED <<config, lock, files, issued, req, resp, arg>>

NextSan == Sanitize

SpecSan == InitSan /\ [][NextSan]_vars

---------------------------------------------------------------------------
(* Properties                                                              *)

Done(r) == req[r].pc = "done"

Succeeded == {r \in Reqs : resp[r].status = 200}

S_ogg == <<".","o","g","g">>

OggFiles == {f \in files : endswith(f.name, S_ogg)}

\* requests that hold an AudioSpec
WithSpec == {r \in Reqs : req[r].uuid # None}

(* C1 (Spec): requests for the same (username, action), interleaved in any  *)
(* way, get pairwise distinct file names; no request overwrites another's   *)
(* artifact or temp file: an exported artifact stays in the directory as    *)
(* its request wrote it, and a temp file is only ever written by its own    *)
(* request; when all NumReq requests succeeded the directory holds NumReq   *)
(* distinct .ogg files, one per request.                                    *)
UniquePerRequest ==
    /\ \A r, q \in Succeeded : r # q => resp[r].filename # resp[q].filename
    /\ \A r \in Succeeded : [name |-> resp[r].filename, by |-> r] \in files
    /\ \A r \in Reqs :
          req[r].ogg = "ok" => Cardinality({f \in OggFiles : f.by = r}) = 1
    /\ \A r \in WithSpec : \A f \in files :
          f.name \in {tmp_wav_path(req[r].uuid), tmp_mp3_path(req[r].uuid)}
              => f.by = r
    /\ \A r \in Reqs :
          req[r].pc = "transcode" /\ req[r].synth = "gtts"
              => [name |-> tmp_mp3_path(req[r].uuid), by |-> r] \in files
    /\ Succeeded = Reqs =>
          /\ Cardinality(OggFiles) = NumReq
          /\ Cardinality({f.name : f \in OggFiles}) = NumReq
          /\ {f.by : f \in OggFiles} = Reqs

\* all NumReq requests for ("Bob", "join") succeeded
UniquePerRequestWitness ==
    /\ Succeeded = Reqs
    /\ \A r \in Reqs : req[r].args.username = Bob /\ req[r].act = Join
    /\ Cardinality(OggFiles) = NumReq


\* a base URL string that begins with http:// or https:// (schemes compare
\* case-insensitively)
BeginsWithHttp(b) ==
    b # None /\ (startswith(lower(b), S_http) \/ startswith(lower(b), S_https))

\* no base URL given at this tier
Absent(b) == b = None \/ b = <<>>

\* url is base, up to trailing slashes and letter case, followed by
\* /static/<rel>
BuiltOn(url, base, rel) ==
    /\ endswith(url, S_static \o rel)
    /\ lower(SubSeq(url, 1, Len(url) - Len(S_static \o rel))) = lower(rstrip(base, {"/"}))

\* the base_url query parameter of request r as the client meant it
QueryBase(r) ==
    IF req[r].args.base_url = None THEN None
    ELSE strip(req[r].args.base_url, Whitespace)

RelPath(r) == S_audio \o resp[r].filename

(* C2 (SpecUrl): an invalid base URL string is never the resolved base, and *)
(* resolution falls through one tier at a time: the query parameter when it *)
(* begins with http(s)://, else the configured default when that begins     *)
(* with http(s)://, else the request-derived URL.                           *)
InvalidTierFallsThrough ==
    \A r \in Succeeded :
        LET q == QueryBase(r)
            c == config.EXTERNAL_BASE_URL
            url == resp[r].url
        IN  IF BeginsWithHttp(q) THEN BuiltOn(url, q, RelPath(r))
            ELSE IF BeginsWithHttp(c) THEN BuiltOn(url, c, RelPath(r))
            ELSE BuiltOn(url, host_url, RelPath(r))

(* C3 (SpecUrl): when the tiers that are present are valid, the query       *)
(* parameter wins over the configured default, which wins over the          *)
(* request-derived URL; audio/abc_join.ogg under https://cdn.example.com    *)
(* resolves to https://cdn.example.com/static/audio/abc_join.ogg.           *)
BaseUrlPrecedence ==
    /\ \A r \in Succeeded :
        LET q == QueryBase(r)
            c == config.EXTERNAL_BASE_URL
            url == resp[r].url
        IN  /\ BeginsWithHttp(q) => BuiltOn(url, q, RelPath(r))
            /\ Absent(q) /\ BeginsWithHttp(c) => BuiltOn(url, c, RelPath(r))
            /\ Absent(q) /\ Absent(c) => BuiltOn(url, host_url, RelPath(r))
    /\ build_file_url(<<"a","u","d","i","o","/","a","b","c","_","j","o","i","n",".","o","g","g">>,
                      base_override(S_https \o CdnHost, config.EXTERNAL_BASE_URL))
       = <<"h","t","t","p","s",":","/","/","c","d","n",".","e","x","a","m","p","l","e",".","c","o","m","/","s","t","a","t","i","c","/","a","u","d","i","o","/","a","b","c","_","j","o","i","n",".","o","g","g">>

\* a 200 answer with a valid query parameter and a valid configured default
BaseUrlPrecedenceWitness ==
    \E r \in Succeeded :
        /\ BeginsWithHttp(QueryBase(r))
        /\ BeginsWithHttp(config.EXTERNAL_BASE_URL)
        /\ startswith(resp[r].url, S_https \o CdnHost \o S_static)


(* C4 (SpecSan): sanitize_username is idempotent: sanitizing a sanitized    *)
(* name gives the same name, also when the first result was cut at the      *)
(* length limit.                                                            *)
SanitizeIdempotent == Len(ret) = 2 => ret[2] = ret[1]

\* the characters of an input that survive sanitizing as themselves (or as
\* their lower-case form)
Kept == (AllowedChars \ {"-"}) \cup Range(UpperLetters)

(* C5 (SpecSan): every result of sanitize_username is non-empty, at most 64 *)
(* characters long and made of a-z, 0-9, hyphen and underscore; the empty   *)
(* string, and any input without a letter, digit or underscore, gives       *)
(* "user".                                                                  *)
SanitizeRange ==
    \A i \in 1..Len(ret) :
        /\ Len(ret[i]) >= 1
        /\ Len(ret[i]) <= 64
        /\ Range(ret[i]) \subseteq AllowedChars
        /\ i = 1 /\ Range(arg) \cap Kept = {} => ret[i] = User

\* an input longer than the limit was sanitized, and was cut at the limit
SanitizeRangeWitness ==
    /\ Len(arg) > 64
    /\ Len(ret) >= 1
    /\ Len(ret[1]) = 64


\* the request gave no usable username or action
Missing(r) == ~Truthy(req[r].args.username) \/ ~Truthy(req[r].args.action)

\* files of the artifact directory written by request r
FilesBy(r) == {f \in files : f.by = r}

\* the request is answered with 400 and neither synthesized nor wrote a file
Rejected(r) ==
    /\ resp[r].status = 400
    /\ req[r].synth = "none"
    /\ FilesBy(r) = {}

EngineUnavailable(r) == req[r].engine_name = "gtts" /\ ~config.gTTS

\* the action, trimmed and lower-cased, is neither "join" nor "leave"
BadAction(r) ==
    /\ ~Missing(r)
    /\ lower(strip(req[r].args.action, Whitespace)) \notin {Join, Leave}

ValidRequest(r) == ~Missing(r) /\ ~BadAction(r)

\* engine construction, synthesis or transcoding failed for request r
EngineFailed(r) ==
    \/ EngineUnavailable(r)
    \/ req[r].synth # "none" /\ req[r].ogg = "none"
    \/ req[r].ogg = "raised"

(* C7 (SpecSeq): when engine construction, synthesis or transcoding fails   *)
(* for a request with a username and a valid action, the answer is a 500    *)
(* that carries the cause; never a 200, never a client error.               *)
EngineFailureIs500 ==
    \A r \in Reqs :
        Done(r) /\ ValidRequest(r) /\ EngineFailed(r)
            => resp[r].status = 500 /\ resp[r].cause # ""

\* the engine a request asks for: its override when that names an engine,
\* else the configured one
RequestedEngine(r) ==
    IF req[r].args.engine \in {"pyttsx3", "gtts"}
    THEN req[r].args.engine ELSE config.ENGINE_NAME

(* C8 (SpecSeq): for every successful request the engine that synthesized   *)
(* the artifact is the one named in the response, which is the override     *)
(* when it is pyttsx3 or gtts and the configured engine otherwise; a later  *)
(* request without override uses the configured engine whatever the         *)
(* earlier requests asked for.                                              *)
EngineUsedIsEngineNamed ==
    \A r \in Succeeded :
        /\ resp[r].engine = RequestedEngine(r)
        /\ req[r].synth = resp[r].engine


\* request r is between its call of save_to_file and the return of
\* runAndWait on the shared engine
InEngine(r) == req[r].pc \in {"save_to_file", "runAndWait"}

(* C9 (Spec): at most one request at a time is between save_to_file and the *)
(* return of runAndWait on the shared pyttsx3 engine, and that request      *)
(* holds the lock; the lock is held by nobody else, in particular not by a  *)
(* request whose synthesis raised, so the next request can take it.         *)
EngineMutualExclusion ==
    /\ Cardinality({r \in Reqs : InEngine(r)}) <= 1
    /\ \A r \in Reqs : InEngine(r) => lock = r
    /\ lock # 0 => InEngine(lock)
    /\ (\E r \in Reqs : req[r].pc = "acquire") /\ (\A r \in Reqs : ~InEngine(r))
          => ENABLED (\E r \in Reqs : acquire(r))

\* one request drives the engine after the synthesis of another one raised
EngineMutualExclusionWitness ==
    \E r, q \in Reqs :
        /\ req[r].pc = "runAndWait" /\ lock = r
        /\ Done(q) /\ req[q].synth = "pyttsx3" /\ req[q].ogg = "none"
        /\ resp[q].status = 500

\* generate_ogg of request r reached the transcode step and returned or raised
Transcoded(r) == Done(r) /\ req[r].ogg # "none"

(* C10, as claimed (Spec): once generate_ogg attempted the transcode, the   *)
(* request's intermediate file is gone from the artifact directory.         *)
TempFileRemoved ==
    \A r \in Reqs : Transcoded(r) => ~exists(files, tmp_path(r))

(* C10, amended (Spec): once generate_ogg attempted the transcode, whether  *)
(* it succeeded or raised, removal of the request's intermediate file was   *)
(* attempted if the file existed, and the file is gone unless that removal  *)
(* itself failed; a failed removal is not raised and does not change the    *)
(* outcome, which is 200 after a successful transcode and the answer to the *)
(* transcode's exception otherwise.                                         *)
TempFileRemovedUnlessRemoveFails ==
    \A r \in Reqs :
        Transcoded(r) =>
            /\ req[r].rm \in {"removed", "failed", "absent"}
            /\ exists(files, tmp_path(r)) <=> req[r].rm = "failed"
            /\ req[r].ogg = "ok" => resp[r].status = 200
            /\ req[r].ogg = "raised" =>
                  /\ resp[r].status = IF req[r].exc.class = "ValueError" THEN 400 ELSE 500
                  /\ resp[r].cause = req[r].exc.msg

\* the transcode raised, the intermediate file was removed, the answer is 500
TempFileWitness ==
    \E r \in Reqs :
        /\ Transcoded(r)
        /\ req[r].ogg = "raised"
        /\ req[r].rm = "removed"
        /\ resp[r].status = 500
        /\ ~exists(files, tmp_path(r))


---------------------------------------------------------------------------
(* PyTTSX3Generator.__init__: voice selection                              *)

\* needle in s
contains(s, needle) ==
    \E i \in 1..(Len(s) - Len(needle) + 1) :
        SubSeq(s, i, i + Len(needle) - 1) = needle

\* (getattr(v, "id", "") or "").lower(), and the same for the name
lowered(attr) == IF attr = None THEN <<>> ELSE lower(attr)

RECURSIVE first_match(_, _)
\* the for loop over voices: the id of the first voice whose id or name
\* contains the needle, None when the loop ends without a break
first_match(voices, needle) ==
    IF voices = <<>> THEN None
    ELSE IF contains(lowered(Head(voices).id), needle)
            \/ contains(lowered(Head(voices).name), needle)
         THEN Head(voices).id
         ELSE first_match(Tail(voices), needle)

\* if chosen_id is None and prefer_voice_substr: ... ; the voice handed to
\* setProperty, None when the engine default is left in place
by_substring(voices, chosen_id, prefer_voice_substr) ==
    IF chosen_id = None /\ prefer_voice_substr # <<>>
    THEN first_match(voices, lower(prefer_voice_substr))
    ELSE chosen_id

\* the mutant: voices[voice_index] without the range check.  Python reads a
\* negative index from the end, and an IndexError lands in the except
\* clause, which ends the selection with the engine default
select_voice_unchecked(voices, voice_index, prefer_voice_substr) ==
    IF voice_index = <<>>
    THEN [voice |-> by_substring(voices, None, prefer_voice_substr), raised |-> FALSE]
    ELSE LET n == voice_index[1]
         IN  IF n >= Len(voices) \/ n < 0 - Len(voices)
             THEN [voice |-> None, raised |-> FALSE]
             ELSE [voice |-> voices[IF n < 0 THEN Len(voices) + n + 1 ELSE n + 1].id,
                   raised |-> FALSE]

\* PyTTSX3Generator.__init__, the first try block: voice_index is <<>> for
\* None and <<n>> for the integer n.  Nothing in the block raises for a
\* list of well-formed voices, and the except clause would swallow it.
select_voice(voices, voice_index, prefer_voice_substr) ==
    LET n == voice_index[1]
        by_index == IF voice_index # <<>> /\ 0 <= n /\ n < Len(voices)
                    THEN voices[n + 1].id
                    ELSE None
    IN  [voice |-> by_substring(voices, by_index, prefer_voice_substr),
         raised |-> FALSE]

\* the voices of the engine: a non-empty id, and a name that may be missing
VoiceIds == {<<"a">>, <<"A","b">>, <<"b">>}

VoiceNames == {None, <<"B">>}

Voices == [id : VoiceIds, name : VoiceNames]

\* --tts-voice, stripped by parse_args
VoiceSubstrs == {<<>>, <<"a">>, <<"b">>, <<"A","B">>, <<"c">>}

\* --tts-voice-index: None, or an integer in or out of range
VoiceIndexes == {<<>>} \cup {<<n>> : n \in (0 - 1)..MaxVoices}

VoiceInputs ==
    [voices : SeqsUpTo(Voices, MaxVoices), voice_index : VoiceIndexes,
     prefer_voice_substr : VoiceSubstrs]

InitVoice ==
    /\ config \in Configs({<<>>})
    /\ config.ENGINE_NAME = "pyttsx3" /\ config.gTTS
    /\ Quiet
    /\ arg \in VoiceInputs
    /\ ret = <<>>

\* the engine is constructed: ret holds the voice it is set to
Construct ==
    /\ ret = <<>>
    /\ ret' = <<select_voice(arg.voices, arg.voice_index, arg.prefer_voice_substr)>>
    /\ UNCHANGED <<config, lock, files, issued, req, resp, arg>>

NextVoice == Construct

SpecVoice == InitVoice /\ [][NextVoice]_vars

\* the index is given and names a voice of the list
IndexInRange ==
    /\ arg.voice_index # <<>>
    /\ arg.voice_index[1] \in 0..(Len(arg.voices) - 1)

\* voice i contains the preferred substring in its id or name, whatever the
\* letter case
SubstrMatches(i) ==
    LET v == arg.voices[i]
        needle == lower(arg.prefer_voice_substr)
    IN  /\ needle # <<>>
        /\ \/ contains(lower(v.id), needle)
           \/ v.name # None /\ contains(lower(v.name), needle)

(* C11 (SpecVoice): an in-range index selects the voice at that index,      *)
(* whatever the substring preference; without a usable index the first      *)
(* voice in enumeration order whose id or name contains the substring,      *)
(* case-insensitively, is selected; with neither, or without a match, the   *)
(* engine default is left in place; the constructor never raises.           *)
VoicePrecedence ==
    ret # <<>> =>
        LET matching == {i \in 1..Len(arg.voices) : SubstrMatches(i)}
        IN  /\ ~ret[1].raised
            /\ IndexInRange => ret[1].voice = arg.voices[arg.voice_index[1] + 1].id
            /\ ~IndexInRange /\ matching # {} =>
                  \E i \in matching :
                      /\ \A j \in matching : i <= j
                      /\ ret[1].voice = arg.voices[i].id
            /\ ~IndexInRange /\ matching = {} => ret[1].voice = None

\* an in-range index won over a substring that matches another voice first
VoicePrecedenceWitness ==
    /\ ret # <<>>
    /\ IndexInRange
    /\ arg.voice_index[1] = 1
    /\ SubstrMatches(1)
    /\ arg.voices[1].id # arg.voices[2].id
    /\ ret[1].voice = arg.voices[2].id

===========================================================================
